---------------------------- MODULE Spec2Model ----------------------------
(***************************************************************************)
(* Agent Bridge mailbox relay (src/agent-bridge.py): send_message and      *)
(* get_new_messages over the shared log file .agent-comm/messages.jsonl,   *)
(* called by independent host processes.                                   *)
(*                                                                         *)
(* The log file is a sequence of tokens (runs of bytes): line feeds,       *)
(* carriage returns, whitespace, serialized JSON objects, the JSON value   *)
(* null, text that is not JSON, and the tail fragment left of a record     *)
(* that was partly overwritten.  Strings are sequences of characters, and  *)
(* json.dumps / json.loads are modelled by the escaping they perform.      *)
(* The model is of a POSIX host: text-mode writes do not translate "\n".   *)
(*                                                                         *)
(* SimpleLightRAG (src/integrations/02_lightrag_example.py): insert builds *)
(* the entity graph from the capitalized words of a text.                  *)
(***************************************************************************)
EXTENDS Integers, Sequences, FiniteSets, TLC

(***************************************************************************)
(* Bounds of the model.                                                    *)
(***************************************************************************)
NProcs == 2          \* independent host processes
MaxCalls == 3        \* tool calls started over a run
MaxInitLines == 1    \* lines of the log found at start-up
MaxWords == 3        \* words of a text given to SimpleLightRAG.insert
MaxRelationships == 3  \* insert is not called once so many edges were added

Procs == 1..NProcs

(***************************************************************************)
(* Inputs of the tools.                                                    *)
(***************************************************************************)
\* Mutant: the recipient check lets every name through.
AnyRecipient == {"trae", "kilo", "grok", "bob"}

Recipients == {"trae", "kilo", "grok"}
DefaultSession == <<"d">>
OtherSession == <<"s", "LF">>
Plain == <<"a">>
Special == <<"BS", "n", "LF", "QT", "E9">>
DefaultLimit == 15

\* The calls the processes make: two recipients and an unknown one, two
\* sessions, a content that needs escaping, and limits 0, 1 and the default.
SendInputs ==
    { [to |-> "trae", session |-> DefaultSession, content |-> Plain],
      [to |-> "trae", session |-> OtherSession, content |-> Plain],
      [to |-> "kilo", session |-> DefaultSession, content |-> Special],
      [to |-> "bob", session |-> DefaultSession, content |-> Plain] }

RecvInputs ==
    { [to |-> "trae", session |-> DefaultSession, limit |-> DefaultLimit],
      [to |-> "trae", session |-> DefaultSession, limit |-> 1],
      [to |-> "trae", session |-> DefaultSession, limit |-> 0],
      [to |-> "trae", session |-> OtherSession, limit |-> DefaultLimit],
      [to |-> "kilo", session |-> DefaultSession, limit |-> DefaultLimit],
      [to |-> "bob", session |-> DefaultSession, limit |-> DefaultLimit] }

\* Python's None, as a string value and as a sequence value.
NoneStr == "None"
None == <<"None">>

(***************************************************************************)
(* Sequence helpers.                                                       *)
(***************************************************************************)
RECURSIVE Flatten(_)
Flatten(ss) == IF ss = <<>> THEN <<>> ELSE Head(ss) \o Flatten(Tail(ss))

Range(s) == {s[i] : i \in 1..Len(s)}

\* Mutant: s[:n], the first n elements.
FirstN(s, n) == IF n >= Len(s) THEN s ELSE SubSeq(s, 1, n)

\* Python's s[-n:]: the last n elements; s[-0:] is s[0:], the whole list.
LastN(s, n) ==
    IF n = 0 \/ n >= Len(s) THEN s ELSE SubSeq(s, Len(s) - n + 1, Len(s))

(***************************************************************************)
(* json.dumps and json.loads on strings.  Characters: "a", "n", "d", "s"   *)
(* are plain; LF is a line feed, BS a backslash, QT a double quote, E9 a   *)
(* non-ASCII letter.  "u00e9" is the four hex digits of a \u escape.       *)
(***************************************************************************)
EscapeChar(c) ==
    CASE c = "LF" -> <<"BS", "n">>
      [] c = "BS" -> <<"BS", "BS">>
      [] c = "QT" -> <<"BS", "QT">>
      [] c = "E9" -> <<"BS", "u00e9">>
      [] OTHER    -> <<c>>

\* Mutant: the text is written unescaped.
DumpsRaw(s) == s

Dumps(s) == Flatten([i \in 1..Len(s) |-> EscapeChar(s[i])])

\* The decoded string, or None when the text is not a JSON string body.
RECURSIVE Loads(_)
Loads(e) ==
    IF e = <<>> THEN <<>>
    ELSE IF Head(e) = "BS"
    THEN IF Len(e) < 2 THEN None
         ELSE LET c == CASE e[2] = "n"     -> "LF"
                         [] e[2] = "BS"    -> "BS"
                         [] e[2] = "QT"    -> "QT"
                         [] e[2] = "u00e9" -> "E9"
                         [] OTHER          -> NoneStr
                  rest == Loads(SubSeq(e, 3, Len(e)))
              IN IF c = NoneStr \/ rest = None THEN None ELSE <<c>> \o rest
    ELSE IF Head(e) \in {"LF", "QT"} THEN None
    ELSE LET rest == Loads(Tail(e))
         IN IF rest = None THEN None ELSE <<Head(e)>> \o rest

(***************************************************************************)
(* Tokens of the log file.                                                 *)
(***************************************************************************)
Tok(k) == [k |-> k, to |-> NoneStr, session |-> <<>>, content |-> <<>>,
           timestamp |-> 0, keys |-> {}]
NL == Tok("nl")
CR == Tok("cr")
WS == Tok("ws")
BAD == Tok("bad")
NULL == Tok("null")
FRAG == Tok("frag")

AllKeys == {"timestamp", "from", "to", "session", "content"}

\* json.dumps(msg) of the dict built by send_message.
MsgJson(to, session, content, ts) ==
    [k |-> "obj", to |-> to, session |-> Dumps(session),
     content |-> Dumps(content), timestamp |-> ts, keys |-> AllKeys]

\* One line of the log as send_message writes it: the record, then "\n".
RecordLine(to, session, content, ts) == <<MsgJson(to, session, content, ts), NL>>

(***************************************************************************)
(* Reading the log in text mode (open(COMM_FILE, "r")): universal newlines *)
(* turn "\r\n" and a lone "\r" into "\n"; iterating the file yields the    *)
(* lines, each with its "\n", the last one possibly without.               *)
(***************************************************************************)
RECURSIVE TranslateNewlines(_)
TranslateNewlines(f) ==
    IF f = <<>> THEN <<>>
    ELSE IF Head(f) = CR
    THEN IF Len(f) >= 2 /\ f[2] = NL
         THEN <<NL>> \o TranslateNewlines(SubSeq(f, 3, Len(f)))
         ELSE <<NL>> \o TranslateNewlines(Tail(f))
    ELSE <<Head(f)>> \o TranslateNewlines(Tail(f))

\* Index of the first "\n" of f, or 0.
RECURSIVE FirstNL(_, _)
FirstNL(f, i) ==
    IF i > Len(f) THEN 0 ELSE IF f[i] = NL THEN i ELSE FirstNL(f, i + 1)

RECURSIVE SplitLines(_)
SplitLines(f) ==
    IF f = <<>> THEN <<>>
    ELSE LET i == FirstNL(f, 1)
         IN IF i = 0 THEN <<f>>
            ELSE <<SubSeq(f, 1, i)>> \o SplitLines(SubSeq(f, i + 1, Len(f)))

ReadLines(f) == SplitLines(TranslateNewlines(f))

(***************************************************************************)
(* Parsing one line.                                                       *)
(***************************************************************************)
IsSpace(t) == t.k \in {"nl", "ws", "cr"}

\* not line.strip()
IsBlank(line) == \A i \in 1..Len(line) : IsSpace(line[i])

Body(line) == SelectSeq(line, LAMBDA t : ~IsSpace(t))

ObjValid(t) ==
    /\ "session" \in t.keys => Loads(t.session) # None
    /\ "content" \in t.keys => Loads(t.content) # None

\* json.loads(line): "error" is json.JSONDecodeError; "null" stands for every
\* JSON value that is not an object; "obj" carries the decoded dict.
JsonLoads(line) ==
    LET b == Body(line)
    IN IF Len(b) # 1 THEN [k |-> "error"]
       ELSE IF b[1].k = "null" THEN [k |-> "null"]
       ELSE IF b[1].k = "obj" /\ ObjValid(b[1])
       THEN [k |-> "obj", keys |-> b[1].keys, to |-> b[1].to,
             session |-> Loads(b[1].session), content |-> Loads(b[1].content),
             timestamp |-> b[1].timestamp]
       ELSE [k |-> "error"]

\* msg.get("to") and msg.get("session"): None when the key is absent.
GetTo(msg) == IF "to" \in msg.keys THEN msg.to ELSE NoneStr
GetSession(msg) == IF "session" \in msg.keys THEN msg.session ELSE None

(***************************************************************************)
(* The scan loop of get_new_messages (lines 88-105) over the lines read.   *)
(* raised is "" when the loop ran to its end, else the exception that left *)
(* it: msg.get on a value that is no dict, or a missing key of a match.    *)
(***************************************************************************)
\* Mutant: the session is not compared.
MatchesAnySession(msg, for_agent, session) == GetTo(msg) = for_agent

Matches(msg, for_agent, session) ==
    GetTo(msg) = for_agent /\ GetSession(msg) = session

Delivered(msg) ==
    [from |-> "the-other-agent", content |-> msg.content,
     timestamp |-> msg.timestamp]

RECURSIVE ScanLoop(_, _, _, _, _)
ScanLoop(lines, for_agent, session, messages, new_lines) ==
    IF lines = <<>>
    THEN [raised |-> "", messages |-> messages, new_lines |-> new_lines]
    ELSE LET line == Head(lines)
             msg == JsonLoads(line)
         IN IF IsBlank(line)
            THEN ScanLoop(Tail(lines), for_agent, session, messages, new_lines)
            ELSE IF msg.k = "error"
            THEN ScanLoop(Tail(lines), for_agent, session, messages,
                          Append(new_lines, line))
            ELSE IF msg.k = "null"
            THEN [raised |-> "AttributeError", messages |-> messages,
                  new_lines |-> new_lines]
            ELSE IF Matches(msg, for_agent, session)
            THEN IF {"content", "timestamp"} \subseteq msg.keys
                 THEN ScanLoop(Tail(lines), for_agent, session,
                               Append(messages, Delivered(msg)), new_lines)
                 ELSE [raised |-> "KeyError", messages |-> messages,
                       new_lines |-> new_lines]
            ELSE ScanLoop(Tail(lines), for_agent, session, messages,
                          Append(new_lines, line))

\* Mutant: every line read is kept, the matches too.
ScanKeepAll(f, for_agent, session) ==
    [ScanLoop(ReadLines(f), for_agent, session, <<>>, <<>>)
        EXCEPT !.new_lines = ReadLines(f)]

Scan(f, for_agent, session) ==
    ScanLoop(ReadLines(f), for_agent, session, <<>>, <<>>)

RECURSIVE Reverse(_)
Reverse(q) == IF q = <<>> THEN <<>> ELSE Append(Reverse(Tail(q)), Head(q))

\* Mutant: the newest message comes first.
ResultNewestFirst(messages, limit) ==
    IF messages # <<>> THEN Reverse(LastN(messages, limit)) ELSE <<>>

\* Line 111: messages[-limit:] if messages else [].
Result(messages, limit) ==
    IF messages # <<>> THEN LastN(messages, limit) ELSE <<>>

(***************************************************************************)
(* Writing the log.                                                        *)
(***************************************************************************)
\* Mutant: the file is opened with "w" and holds the new record alone.
WriteOver(f, bytes) == bytes

\* open(COMM_FILE, "a") and one write: the bytes land at the end of the file.
AppendBytes(f, bytes) == f \o bytes

\* open(COMM_FILE, "w"): the file is cut to nothing.
Truncate(f) == <<>>

\* The write of a file opened with "w", from offset 0 and without O_APPEND,
\* over what the file holds by then: the new bytes replace as many bytes of
\* the file, and what lies beyond them stays.  The outcomes for every length
\* the new bytes can have against the tokens in the file: the file's tokens
\* past some point, whole, or after the fragment of a token cut in two.
Overwrites(f, bytes) ==
    IF bytes = <<>> \/ f = <<>> THEN {bytes \o f}
    ELSE {bytes} \cup
         {bytes \o SubSeq(f, i, Len(f)) : i \in 2..Len(f)} \cup
         {bytes \o <<FRAG>> \o SubSeq(f, i, Len(f)) :
             i \in {j \in 2..(Len(f) + 1) : f[j - 1].k \notin {"nl", "cr"}}}

(***************************************************************************)
(* State.                                                                  *)
(*   file   the bytes of COMM_FILE                                         *)
(*   pc     where each process is in its current call ("idle": in none)    *)
(*   loc    the locals of each process's current call                      *)
(*   clock  datetime.now(), read once per message; it is taken to advance  *)
(*          between two sends, so a timestamp also names its message       *)
(*   calls  tool calls started so far                                      *)
(* History, kept for the properties and read by no action:                 *)
(*   hist   the last two calls that ended, in the order they ended, each   *)
(*          with its arguments, its outcome and the file before and after  *)
(*   track  the timestamps of the messages appended (sent), matched by a   *)
(*          receive that returned (consumed), returned to a caller         *)
(*          (returned) and returned more than once (again); and whether a  *)
(*          process was killed (crashed); parts holds, for each message    *)
(*          appended, its timestamp with the recipient and session it was  *)
(*          sent to                                                        *)
(* SimpleLightRAG:                                                         *)
(*   rag    the fields entities, relationships and graph of the object     *)
(***************************************************************************)
VARIABLES file, pc, loc, clock, calls, hist, track, rag

vars == <<file, pc, loc, clock, calls, hist, track, rag>>

\* SimpleLightRAG.__init__ (lines 13-16).
NoRag == [entities |-> {}, relationships |-> <<>>, graph |-> <<>>]

NoLoc == [to |-> NoneStr, session |-> <<>>, content |-> <<>>, limit |-> 0,
          timestamp |-> 0, snap |-> <<>>, messages |-> <<>>,
          new_lines |-> <<>>]

Event(op, l, out, result, pre, post) ==
    [op |-> op, to |-> l.to, session |-> l.session,
     content |-> l.content, limit |-> l.limit, timestamp |-> l.timestamp,
     out |-> out, result |-> result, matched |-> l.messages,
     kept |-> Flatten(l.new_lines), pre |-> pre, post |-> post]

Record(h, e) == IF Len(h) >= 2 THEN <<h[Len(h)], e>> ELSE Append(h, e)

Stamps(msgs) == {msgs[i].timestamp : i \in 1..Len(msgs)} \ {0}

(***************************************************************************)
(* The log found at start-up (lines 28-30 create it only when absent):     *)
(* up to MaxInitLines lines, then possibly text with no line end.          *)
(***************************************************************************)
PartialJson ==
    [k |-> "obj", to |-> "trae", session |-> Dumps(DefaultSession),
     content |-> <<>>, timestamp |-> 0, keys |-> {"to", "session"}]

InitLineSet ==
    { <<BAD, NL>>, <<BAD, CR, NL>>, <<WS, NL>>, <<NULL, NL>>,
      <<PartialJson, NL>> }

InitTails == {<<>>, <<BAD>>}

RECURSIVE SeqsUpTo(_, _)
SeqsUpTo(S, n) ==
    IF n = 0 THEN {<<>>}
    ELSE LET shorter == SeqsUpTo(S, n - 1)
         IN shorter \cup {Append(q, x) : q \in shorter, x \in S}

InitFiles ==
    {Flatten(ls) \o t : ls \in SeqsUpTo(InitLineSet, MaxInitLines),
                        t \in InitTails}

Init ==
    /\ file \in InitFiles
    /\ pc = [p \in Procs |-> "idle"]
    /\ loc = [p \in Procs |-> NoLoc]
    /\ clock = 0
    /\ calls = 0
    /\ hist = <<>>
    /\ track = [sent |-> {}, consumed |-> {}, returned |-> {}, again |-> {},
                crashed |-> FALSE, parts |-> {}]
    /\ rag = NoRag

(***************************************************************************)
(* send_message (lines 33-60).                                             *)
(***************************************************************************)
\* Lines 46-55: the recipient check, and the message with its timestamp.
SendMessage(p) ==
    /\ pc[p] = "idle"
    /\ UNCHANGED rag
    /\ calls < MaxCalls
    /\ calls' = calls + 1
    /\ \E in \in SendInputs :
          LET l == [NoLoc EXCEPT !.to = in.to, !.session = in.session,
                                 !.content = in.content]
          IN IF in.to \notin Recipients
             THEN /\ hist' = Record(hist, Event("send", l, "ERROR", <<>>,
                                                file, file))
                  /\ UNCHANGED <<file, pc, loc, clock, track>>
             ELSE /\ clock' = clock + 1
                  /\ loc' = [loc EXCEPT ![p] = [l EXCEPT !.timestamp = clock']]
                  /\ pc' = [pc EXCEPT ![p] = "append"]
                  /\ UNCHANGED <<file, hist, track>>

\* Lines 57-60: the append of the record and the confirmation.
SendAppend(p) ==
    /\ pc[p] = "append"
    /\ UNCHANGED rag
    /\ file' = AppendBytes(file, RecordLine(loc[p].to, loc[p].session,
                                            loc[p].content, loc[p].timestamp))
    /\ hist' = Record(hist, Event("send", loc[p], "sent", <<>>, file, file'))
    /\ track' = [track EXCEPT
                    !.sent = @ \cup {loc[p].timestamp},
                    !.parts = @ \cup {<<loc[p].timestamp, loc[p].to,
                                        loc[p].session>>}]
    /\ pc' = [pc EXCEPT ![p] = "idle"]
    /\ loc' = [loc EXCEPT ![p] = NoLoc]
    /\ UNCHANGED <<clock, calls>>

(***************************************************************************)
(* get_new_messages (lines 63-111).                                        *)
(***************************************************************************)
\* Lines 79-86: the recipient check (the file exists since start-up).
GetNewMessages(p) ==
    /\ pc[p] = "idle"
    /\ UNCHANGED rag
    /\ calls < MaxCalls
    /\ calls' = calls + 1
    /\ \E in \in RecvInputs :
          LET l == [NoLoc EXCEPT !.to = in.to, !.session = in.session,
                                 !.limit = in.limit]
          IN IF in.to \notin Recipients
             THEN /\ hist' = Record(hist, Event("recv", l, "rejected", <<>>,
                                                file, file))
                  /\ UNCHANGED <<file, pc, loc, clock, track>>
             ELSE /\ loc' = [loc EXCEPT ![p] = l]
                  /\ pc' = [pc EXCEPT ![p] = "read"]
                  /\ UNCHANGED <<file, hist, clock, track>>

\* Mutant: the file is opened for writing before the scan, so a scan that
\* raises leaves it cut.
RcvReadCutting(p) ==
    /\ pc[p] = "read"
    /\ UNCHANGED rag
    /\ LET r == Scan(file, loc[p].to, loc[p].session)
           l == [loc[p] EXCEPT !.snap = file, !.messages = r.messages,
                               !.new_lines = r.new_lines]
       IN IF r.raised # ""
          THEN /\ file' = Truncate(file)
               /\ hist' = Record(hist, Event("recv", l, r.raised, <<>>,
                                             file, file'))
               /\ pc' = [pc EXCEPT ![p] = "idle"]
               /\ loc' = [loc EXCEPT ![p] = NoLoc]
          ELSE /\ loc' = [loc EXCEPT ![p] = l]
               /\ pc' = [pc EXCEPT ![p] = "open_w"]
               /\ UNCHANGED <<hist, file>>
    /\ UNCHANGED <<clock, calls, track>>

\* Lines 88-105: the file is read and scanned; an exception ends the call.
RcvRead(p) ==
    /\ pc[p] = "read"
    /\ UNCHANGED rag
    /\ LET r == Scan(file, loc[p].to, loc[p].session)
           l == [loc[p] EXCEPT !.snap = file, !.messages = r.messages,
                               !.new_lines = r.new_lines]
       IN IF r.raised # ""
          THEN /\ hist' = Record(hist, Event("recv", l, r.raised, <<>>,
                                             file, file))
               /\ pc' = [pc EXCEPT ![p] = "idle"]
               /\ loc' = [loc EXCEPT ![p] = NoLoc]
          ELSE /\ loc' = [loc EXCEPT ![p] = l]
               /\ pc' = [pc EXCEPT ![p] = "open_w"]
               /\ UNCHANGED hist
    /\ UNCHANGED <<file, clock, calls, track>>

\* Line 108: open(COMM_FILE, "w") cuts the file.
RcvTruncate(p) ==
    /\ pc[p] = "open_w"
    /\ UNCHANGED rag
    /\ file' = Truncate(file)
    /\ pc' = [pc EXCEPT ![p] = "write"]
    /\ UNCHANGED <<loc, clock, calls, hist, track>>

\* Lines 109-111: the kept lines are written and the result is returned.
RcvWrite(p) ==
    /\ pc[p] = "write"
    /\ UNCHANGED rag
    /\ file' \in Overwrites(file, Flatten(loc[p].new_lines))
    /\ LET result == Result(loc[p].messages, loc[p].limit)
       IN /\ hist' = Record(hist, Event("recv", loc[p], "returned", result,
                                        loc[p].snap, file'))
          /\ track' = [track EXCEPT
                          !.consumed = @ \cup Stamps(loc[p].messages),
                          !.returned = @ \cup Stamps(result),
                          !.again = @ \cup (track.returned \cap Stamps(result))]
    /\ pc' = [pc EXCEPT ![p] = "idle"]
    /\ loc' = [loc EXCEPT ![p] = NoLoc]
    /\ UNCHANGED <<clock, calls>>

\* The process is killed, or the storage fails, inside the rewrite (lines
\* 108-109): before the file is opened for writing, or after it was cut and
\* before the kept lines are written.  hist keeps what the file then holds.
Crash(p) ==
    /\ pc[p] \in {"open_w", "write"}
    /\ UNCHANGED rag
    /\ hist' = Record(hist, Event("crash", loc[p], pc[p], <<>>,
                                  loc[p].snap, file))
    /\ track' = [track EXCEPT !.crashed = TRUE]
    /\ pc' = [pc EXCEPT ![p] = "idle"]
    /\ loc' = [loc EXCEPT ![p] = NoLoc]
    /\ UNCHANGED <<file, clock, calls>>

(***************************************************************************)
(* Specifications.                                                         *)
(*   Spec      independent processes, every interleaving, with crashes     *)
(*   SeqSpec   one call at a time, each run to its end                     *)
(*   SendSpec  concurrent sends and no receive                             *)
(*   RaceSpec  every interleaving, no process killed, log empty at start   *)
(*   RagSpec   calls of SimpleLightRAG.insert                              *)
(***************************************************************************)
Step(p) ==
    \/ SendMessage(p)
    \/ SendAppend(p)
    \/ GetNewMessages(p)
    \/ RcvRead(p)
    \/ RcvTruncate(p)
    \/ RcvWrite(p)

Next == \E p \in Procs : Step(p) \/ Crash(p)

Spec == Init /\ [][Next]_vars

OthersIdle(p) == \A q \in Procs \ {p} : pc[q] = "idle"

SeqNext ==
    \E p \in Procs :
       \/ OthersIdle(p) /\ SendMessage(p)
       \/ OthersIdle(p) /\ SendAppend(p)
       \/ OthersIdle(p) /\ GetNewMessages(p)
       \/ OthersIdle(p) /\ RcvRead(p)
       \/ OthersIdle(p) /\ RcvTruncate(p)
       \/ OthersIdle(p) /\ RcvWrite(p)

SeqSpec == Init /\ [][SeqNext]_vars

SendNext == \E p \in Procs : SendMessage(p) \/ SendAppend(p)

SendSpec == Init /\ [][SendNext]_vars

\* Every interleaving of the calls of processes none of which is killed, on
\* a log that is empty at start-up.
RaceInit == Init /\ file = <<>>

RaceNext == \E p \in Procs : Step(p)

RaceSpec == RaceInit /\ [][RaceNext]_vars

(***************************************************************************)
(* SimpleLightRAG (src/integrations/02_lightrag_example.py).               *)
(* A word of a text is its letters (core), whether its first character is  *)
(* upper case, and the punctuation that follows the letters.               *)
(***************************************************************************)
Word(core, upper, punct) == [core |-> core, upper |-> upper, punct |-> punct]

Vocabulary ==
    { Word("Alpha", TRUE, ""), Word("Beta", TRUE, ""), Word("Beta", TRUE, "."),
      Word("Gamma", TRUE, ""), Word("the", FALSE, "") }

Texts == SeqsUpTo(Vocabulary, MaxWords)

\* t.strip('.,;:!?')
StripPunct(w) == w.core

\* The lists of the elements of S, each once: list(set(...)) in any order.
RECURSIVE Orderings(_)
Orderings(S) ==
    IF S = {} THEN {<<>>}
    ELSE UNION {{<<x>> \o q : q \in Orderings(S \ {x})} : x \in S}

\* extract_entities_simple (lines 18-22): the results it can return.
ExtractEntities(text) ==
    Orderings({StripPunct(text[i]) : i \in {j \in 1..Len(text) : text[j].upper}})

\* d[k] = v on a dict.
Put(d, k, v) == [x \in DOMAIN d \cup {k} |-> IF x = k THEN v ELSE d[x]]

\* Lines 28-31: every entity gets a node.
RECURSIVE AddNodes(_, _)
AddNodes(g, entities) ==
    IF entities = <<>> THEN g
    ELSE AddNodes(IF Head(entities) \in DOMAIN g THEN g
                  ELSE Put(g, Head(entities), <<>>),
                  Tail(entities))

\* Lines 34-35: each entity with the next two of the list, in loop order.
PairsOf(entities) ==
    LET n == Len(entities)
        from(i) == [k \in 1..(IF i + 2 <= n THEN 2 ELSE n - i) |->
                       <<entities[i], entities[i + k]>>]
    IN Flatten([i \in 1..n |-> from(i)])

\* Lines 39-45: the edge of one pair; line 43 assigns ent2 a new dict.
AddEdge(g, ent1, ent2) ==
    LET g1 == IF ent2 \notin DOMAIN g[ent1]
              THEN Put(g, ent1, Put(g[ent1], ent2, <<>>)) ELSE g
        g2 == IF ent1 \notin DOMAIN g1[ent2]
              THEN Put(g1, ent2, Put(<<>>, ent1, <<>>)) ELSE g1
    IN Put(g2, ent1, Put(g2[ent1], ent2, Append(g2[ent1][ent2], "co_occurs")))

RECURSIVE AddEdges(_, _)
AddEdges(g, pairs) ==
    IF pairs = <<>> THEN g
    ELSE AddEdges(AddEdge(g, Head(pairs)[1], Head(pairs)[2]), Tail(pairs))

\* insert (lines 24-45) on the entities extracted.
InsertEntities(r, entities) ==
    [entities |-> r.entities \cup Range(entities),
     relationships |->
        r.relationships \o [i \in 1..Len(PairsOf(entities)) |->
                               <<PairsOf(entities)[i][1], "co_occurs",
                                 PairsOf(entities)[i][2]>>],
     graph |-> AddEdges(AddNodes(r.graph, entities), PairsOf(entities))]

Insert ==
    /\ Len(rag.relationships) < MaxRelationships
    /\ \E text \in Texts :
          \E entities \in ExtractEntities(text) :
             rag' = InsertEntities(rag, entities)
    /\ UNCHANGED <<file, pc, loc, clock, calls, hist, track>>

RagSpec == RaceInit /\ [][Insert]_vars

(***************************************************************************)
(* Vocabulary of the properties.                                           *)
(***************************************************************************)
Quiet == \A p \in Procs : pc[p] = "idle"

Last == hist[Len(hist)]
Prev == hist[1]

ValidSet == {"trae", "kilo", "grok"}

\* The lines of the file as bytes: cut after each "\n" and nowhere else.
RawLines(f) == SplitLines(f)

ParsedLines(f) == [i \in 1..Len(RawLines(f)) |-> JsonLoads(RawLines(f)[i])]

WellFormedRec(m) ==
    /\ m.k = "obj"
    /\ {"to", "session", "content", "timestamp"} \subseteq m.keys
    /\ m.to \in ValidSet

\* Every line is one complete Message record followed by "\n".
WellFormedLog(f) ==
    \A i \in 1..Len(RawLines(f)) :
       LET line == RawLines(f)[i]
       IN /\ Len(line) = 2
          /\ line[1].k = "obj"
          /\ line[2] = NL
          /\ WellFormedRec(JsonLoads(line))

\* The records of the file addressed to (r, s), and the well-formed records
\* addressed elsewhere, each in file order.
IsFor(m, r, s) ==
    /\ m.k = "obj"
    /\ "to" \in m.keys /\ m.to = r
    /\ "session" \in m.keys /\ m.session = s

MatchRecords(f, r, s) == SelectSeq(ParsedLines(f), LAMBDA m : IsFor(m, r, s))

OtherRecords(f, r, s) ==
    SelectSeq(ParsedLines(f), LAMBDA m : WellFormedRec(m) /\ ~IsFor(m, r, s))

\* The non-blank lines of the file, as bytes, that do not parse as JSON.
MalformedLines(f) ==
    SelectSeq(RawLines(f), LAMBDA l : ~IsBlank(l) /\ JsonLoads(l).k = "error")

\* The timestamps of the records sent that the file holds.
FileStamps(f) == {f[i].timestamp : i \in {j \in 1..Len(f) : f[j].k = "obj"}} \ {0}

\* What get_new_messages would answer on file f.
Outcome(f, in) ==
    IF in.to \notin ValidSet THEN [out |-> "rejected", result |-> <<>>]
    ELSE LET r == Scan(f, in.to, in.session)
         IN IF r.raised # "" THEN [out |-> r.raised, result |-> <<>>]
            ELSE [out |-> "returned", result |-> Result(r.messages, in.limit)]

Returned == Len(hist) >= 1 /\ Last.op = "recv" /\ Last.out = "returned"

(***************************************************************************)
(* C1.  Round trip: on a log of well-formed records, send_message(r, c, s) *)
(* followed at once by get_new_messages(r, s) with limit >= 1 returns a    *)
(* result that holds that message exactly once, with content c.            *)
(***************************************************************************)
SendThenReceive ==
    /\ Len(hist) = 2
    /\ Prev.op = "send" /\ Prev.out = "sent" /\ WellFormedLog(Prev.pre)
    /\ Last.op = "recv" /\ Last.to = Prev.to /\ Last.session = Prev.session
    /\ Last.limit >= 1 /\ Last.pre = Prev.post

C1_RoundTrip ==
    SendThenReceive =>
       /\ Last.out = "returned"
       /\ Cardinality({i \in 1..Len(Last.result) :
                          Last.result[i].timestamp = Prev.timestamp}) = 1
       /\ \A i \in 1..Len(Last.result) :
             Last.result[i].timestamp = Prev.timestamp
                => Last.result[i].content = Prev.content

C1_Witness ==
    /\ SendThenReceive
    /\ Prev.content = Special
    /\ Prev.pre # <<>>
    /\ \E i \in 1..Len(Last.result) : Last.result[i].content = Special

(***************************************************************************)
(* C2.  No lost message under interleaving: once every call has ended (and *)
(* no process was killed), the log holds exactly the messages sent and not *)
(* yet matched by a get_new_messages for their recipient and session.      *)
(***************************************************************************)
C2_NoLostMessage ==
    (Quiet /\ ~track.crashed) =>
       FileStamps(file) = track.sent \ track.consumed

(***************************************************************************)
(* C3.  At-most-once delivery: no message is returned by more than one     *)
(* get_new_messages call, and a message that was returned is not in the    *)
(* log.                                                                    *)
(***************************************************************************)
C3_AtMostOnce ==
    /\ track.again = {}
    /\ track.returned \cap FileStamps(file) = {}

(***************************************************************************)
(* C4.  Atomic rewrite: when the process is killed inside the rewrite, the *)
(* log then holds either all it held before the rewrite or all the         *)
(* rewrite was to leave.                                                   *)
(***************************************************************************)
C4_CrashAtomic ==
    (Len(hist) >= 1 /\ Last.op = "crash") =>
       Last.post \in {Last.pre, Last.kept}

(***************************************************************************)
(* C5.  Invalid recipient on send: send_message to a name outside {trae,   *)
(* kilo, grok} answers with an error and leaves the log as it was, and     *)
(* every record written by send_message has a recipient of that set.       *)
(***************************************************************************)
C5_InvalidRecipientSend ==
    /\ (Quiet /\ Len(hist) >= 1 /\ Last.op = "send" /\ Last.to \notin ValidSet)
          => /\ Last.out = "ERROR"
             /\ file = Last.pre
             /\ Len(hist) = 2 => file = Prev.post
    /\ \A i \in 1..Len(file) :
          (file[i].k = "obj" /\ file[i].timestamp > 0)
             => file[i].to \in ValidSet

C5_Witness ==
    /\ Quiet /\ Len(hist) = 2
    /\ Last.op = "send" /\ Last.to = "bob" /\ Last.out = "ERROR"
    /\ Prev.op = "send" /\ Prev.out = "sent"
    /\ FileStamps(file) # {}

(***************************************************************************)
(* C6.  Drain: after a get_new_messages(r, s) call has returned, the log   *)
(* holds no record for (r, s), and a second get_new_messages(r, s) made at *)
(* once returns an empty result.                                           *)
(***************************************************************************)
C6_Drain ==
    /\ (Quiet /\ Returned)
          => /\ MatchRecords(file, Last.to, Last.session) = <<>>
             /\ \A in \in RecvInputs :
                   (in.to = Last.to /\ in.session = Last.session)
                      => Outcome(file, in) = [out |-> "returned", result |-> <<>>]
    /\ (/\ Len(hist) = 2
        /\ Prev.op = "recv" /\ Prev.out = "returned"
        /\ Last.op = "recv" /\ Last.to = Prev.to /\ Last.session = Prev.session)
          => Last.out = "returned" /\ Last.result = <<>>

C6_Witness ==
    /\ Quiet /\ Len(hist) = 2
    /\ Prev.op = "recv" /\ Prev.out = "returned" /\ Prev.result # <<>>
    /\ Last.op = "recv" /\ Last.to = Prev.to /\ Last.session = Prev.session
    /\ Last.out = "returned"

(***************************************************************************)
(* C7.  Frame of receive, one call at a time: a get_new_messages(r, s)     *)
(* that returned leaves the well-formed records of other recipients or     *)
(* sessions in the log, unchanged and in order, and a later                *)
(* get_new_messages for any other recipient and session answers what it    *)
(* would have answered before.                                             *)
(***************************************************************************)
C7_Frame ==
    (Quiet /\ Returned) =>
       /\ OtherRecords(file, Last.to, Last.session)
             = OtherRecords(Last.pre, Last.to, Last.session)
       /\ \A in \in RecvInputs :
             (in.to # Last.to \/ in.session # Last.session)
                => Outcome(file, in) = Outcome(Last.pre, in)

C7_Witness ==
    /\ Quiet /\ Returned
    /\ Last.result # <<>>
    /\ \E in \in RecvInputs :
          /\ in.to = Last.to /\ in.session # Last.session
          /\ Outcome(file, in).result # <<>>

(***************************************************************************)
(* C8.  Limit: when the log holds M records for (r, s) and                 *)
(* get_new_messages(r, s, limit = L) with 1 <= L < M returns, the result   *)
(* is the last L of them in log order, all M have left the log, the M - L  *)
(* older ones were returned to no one, and the next receive is empty.      *)
(***************************************************************************)
OverLimit ==
    /\ Quiet /\ Returned
    /\ 1 <= Last.limit
    /\ Last.limit < Len(MatchRecords(Last.pre, Last.to, Last.session))

C8_Limit ==
    OverLimit =>
       LET ms == MatchRecords(Last.pre, Last.to, Last.session)
           M == Len(ms)
           L == Last.limit
           in == [to |-> Last.to, session |-> Last.session, limit |-> L]
       IN /\ Last.result = [i \in 1..L |-> Delivered(ms[M - L + i])]
          /\ MatchRecords(file, Last.to, Last.session) = <<>>
          /\ \A i \in 1..(M - L) : ms[i].timestamp \notin track.returned
          /\ Outcome(file, in) = [out |-> "returned", result |-> <<>>]

C8_Witness ==
    /\ OverLimit
    /\ Len(Last.result) = 1
    /\ file # <<>>

(***************************************************************************)
(* C9.  Concurrent sends: with sends of independent processes in flight    *)
(* together and no receive, each append adds its one complete record after *)
(* all the file held, nothing written before is lost, and the file holds   *)
(* one complete record per send that ended.                                *)
(***************************************************************************)
C9_ConcurrentSends ==
    /\ (Len(hist) >= 1 /\ Last.out = "sent")
          => /\ file = Last.post
             /\ Last.post = Last.pre \o RecordLine(Last.to, Last.session,
                                                   Last.content, Last.timestamp)
    /\ (Len(hist) = 2 /\ Prev.out = "sent" /\ Last.out = "sent")
          => Last.pre = Prev.post
    /\ FileStamps(file) = track.sent
    /\ \A ts \in track.sent :
          Cardinality({i \in 1..(Len(file) - 1) :
                          /\ file[i].k = "obj"
                          /\ file[i].timestamp = ts
                          /\ file[i + 1] = NL}) = 1

C9_Witness ==
    /\ Len(hist) = 2
    /\ Prev.out = "sent" /\ Last.out = "sent"
    /\ Prev.timestamp > Last.timestamp

(***************************************************************************)
(* C10.  Malformed lines survive: after a get_new_messages call that       *)
(* returned, every non-blank line that does not parse as JSON is in the    *)
(* log byte for byte, in the same order.                                   *)
(***************************************************************************)
C10_MalformedSurvive ==
    (Quiet /\ Returned) =>
       MalformedLines(file) = MalformedLines(Last.pre)

(***************************************************************************)
(* C11.  Delivery order, one call at a time: the log holds the records     *)
(* sent in the order they were appended; a result lists its messages in    *)
(* that order; and when a receive returns, no message of its recipient and *)
(* session is left in the log, so none older than a delivered one can be   *)
(* delivered by a later call.                                              *)
(***************************************************************************)
Increasing(q) == \A i, j \in 1..Len(q) : i < j => q[i] < q[j]

StampSeq(msgs) == [i \in 1..Len(msgs) |-> msgs[i].timestamp]

SentInFile(f) == SelectSeq(f, LAMBDA t : t.k = "obj" /\ t.timestamp > 0)

C11_DeliveryOrder ==
    /\ Increasing(StampSeq(SentInFile(file)))
    /\ (Quiet /\ Returned)
          => /\ Increasing(StampSeq(Last.result))
             /\ LET pending == MatchRecords(file, Last.to, Last.session)
                IN \A i \in 1..Len(pending), j \in 1..Len(Last.result) :
                      Last.result[j].timestamp < pending[i].timestamp
    /\ (/\ Len(hist) = 2
        /\ Prev.op = "recv" /\ Prev.out = "returned"
        /\ Last.op = "recv" /\ Last.out = "returned"
        /\ Last.to = Prev.to /\ Last.session = Prev.session)
          => \A i \in 1..Len(Prev.result), j \in 1..Len(Last.result) :
                Prev.result[i].timestamp < Last.result[j].timestamp

C11_Witness ==
    /\ Quiet /\ Returned
    /\ Len(Last.result) = 2
    /\ Last.result[1].timestamp < Last.result[2].timestamp

(***************************************************************************)
(* C12.  Invalid recipient on receive: get_new_messages for a name outside *)
(* {trae, kilo, grok} returns an empty list and the log is byte for byte   *)
(* what it was, whatever it holds.                                         *)
(***************************************************************************)
RejectedReceive ==
    Quiet /\ Len(hist) >= 1 /\ Last.op = "recv" /\ Last.to \notin ValidSet

C12_InvalidRecipientReceive ==
    RejectedReceive =>
       /\ Last.out = "rejected"
       /\ Last.result = <<>>
       /\ file = Last.pre
       /\ Len(hist) = 2 => file = Prev.post

C12_Witness ==
    /\ RejectedReceive
    /\ \E i \in 1..Len(RawLines(file)) : IsBlank(RawLines(file)[i])
    /\ \E in \in RecvInputs : Outcome(file, in).out = "returned"

(***************************************************************************)
(* C13.  Invalid recipient on receive yields an explicit error: what       *)
(* get_new_messages returns for a name outside the valid set differs from  *)
(* what it returns for a valid recipient with nothing pending.             *)
(***************************************************************************)
ReturnValue(e) == e.result

C13_ExplicitError ==
    (Len(hist) >= 1 /\ Last.op = "recv" /\ Last.to \notin ValidSet) =>
       \A in \in RecvInputs :
          in.to \in ValidSet => ReturnValue(Last) # Outcome(<<>>, in).result

(***************************************************************************)
(* C14.  Limit is a cap: for every limit >= 0, 0 included, a               *)
(* get_new_messages call returns at most limit messages.                   *)
(***************************************************************************)
C14_LimitCap ==
    (Len(hist) >= 1 /\ Last.op = "recv" /\ Last.limit >= 0) =>
       Len(Last.result) <= Last.limit

(***************************************************************************)
(* C15.  Receive never fails on a bad record: whatever the log holds, a    *)
(* get_new_messages call for a valid recipient returns, and the lines that *)
(* are no complete record of another kind are passed through unchanged.    *)
(***************************************************************************)
BadRecordLines(f) ==
    SelectSeq(ReadLines(f),
              LAMBDA l : ~IsBlank(l) /\ ~WellFormedRec(JsonLoads(l)))

C15_NeverFails ==
    (Quiet /\ Len(hist) >= 1 /\ Last.op = "recv" /\ Last.to \in ValidSet) =>
       /\ Last.out = "returned"
       /\ BadRecordLines(file) = BadRecordLines(Last.pre)

(***************************************************************************)
(* C16.  Blank lines are preserved: the blank lines of the log before a    *)
(* get_new_messages call that returned are in the log after it, unchanged  *)
(* and in the same order.                                                  *)
(***************************************************************************)
BlankLines(f) == SelectSeq(RawLines(f), IsBlank)

C16_BlankPreserved ==
    (Quiet /\ Returned) => BlankLines(file) = BlankLines(Last.pre)

(***************************************************************************)
(* C18.  Send adds one self-contained record: a send_message that          *)
(* succeeded leaves the lines of the log as they were and adds one line    *)
(* holding the new record alone, so that, wherever a receive could scan    *)
(* the log before, the next get_new_messages(r, s) returns the content.    *)
(***************************************************************************)
C18_SendAddsOneRecord ==
    (Quiet /\ Len(hist) >= 1 /\ Last.op = "send" /\ Last.out = "sent") =>
       LET in == [to |-> Last.to, session |-> Last.session,
                  limit |-> DefaultLimit]
           line == RecordLine(Last.to, Last.session, Last.content,
                              Last.timestamp)
       IN /\ RawLines(file) = Append(RawLines(Last.pre), line)
          /\ Outcome(Last.pre, in).out = "returned"
                => \E i \in 1..Len(Outcome(file, in).result) :
                      /\ Outcome(file, in).result[i].timestamp = Last.timestamp
                      /\ Outcome(file, in).result[i].content = Last.content

(***************************************************************************)
(* C20.  A failed receive mutates nothing: when get_new_messages ends with *)
(* an exception raised while it scans the log, the log is byte for byte    *)
(* what it was, nothing was returned, and every message sent and not yet   *)
(* matched by a receive that returned is still in the log.                 *)
(***************************************************************************)
Failed ==
    /\ Quiet /\ Len(hist) >= 1
    /\ Last.op = "recv" /\ Last.out \in {"AttributeError", "KeyError"}

C20_FailedReceive ==
    Failed =>
       /\ file = Last.pre
       /\ Len(hist) = 2 => file = Prev.post
       /\ Last.result = <<>>
       /\ FileStamps(file) = track.sent \ track.consumed
       /\ track.returned \cap FileStamps(file) = {}

C20_Witness ==
    /\ Failed
    /\ Len(hist) = 2 /\ Prev.op = "send" /\ Prev.out = "sent"
    /\ Prev.to = Last.to /\ Prev.session = Last.session
    /\ Prev.timestamp \in FileStamps(file)

(***************************************************************************)
(* C17.  Partition isolation: in every interleaving, each message that     *)
(* get_new_messages(r, s) returns was sent with recipient r and session s. *)
(***************************************************************************)
C17_PartitionIsolation ==
    Returned =>
       \A i \in 1..Len(Last.result) :
          <<Last.result[i].timestamp, Last.to, Last.session>> \in track.parts

\* A receive returned a message while a message of the same recipient and
\* another session, whose send overlapped the returned message's send, stays
\* in the log.
C17_Witness ==
    /\ Returned
    /\ Last.result # <<>>
    /\ Len(hist) = 2
    /\ Prev.op = "send" /\ Prev.out = "sent"
    /\ Prev.to = Last.to /\ Prev.session # Last.session
    /\ Prev.timestamp < Last.result[1].timestamp
    /\ Prev.timestamp \in FileStamps(file)

(***************************************************************************)
(* C19.  Entity graph edges are bidirectional: after any inserts, b is a   *)
(* neighbour of a exactly when a is a neighbour of b.                      *)
(***************************************************************************)
C19_Bidirectional ==
    \A a, b \in DOMAIN rag.graph :
       (b \in DOMAIN rag.graph[a]) <=> (a \in DOMAIN rag.graph[b])

=============================================================================
